---- MODULE Spec2Model ----
(***************************************************************************)
(* LumeMap projection mapper: the editor state owned by App (surface list, *)
(* selection, mode, drawing buffer, versions) and the Canvas interaction   *)
(* controller and render loop that read and mutate it.                     *)
(*                                                                         *)
(* Numbers.  A normalized coordinate is an integer count of 1/NormOne, so  *)
(* 1.0 is NormOne and 0.3 is 30.  Pixel coordinates are integers.  The     *)
(* canvas rectangle is W x H pixels with W # H, so that toPixels and       *)
(* toNormalized are different maps on the two axes.                        *)
(* Sequences are 1-based: the code's pointIndex i is i + 1 here.  mousePos *)
(* is the empty sequence for null and a one-element sequence otherwise.    *)
(***************************************************************************)
EXTENDS Integers, Sequences, FiniteSets, TLC

\* ------------------------------------------------------------------ bounds
MaxShapes == 2
MaxDraw == 4
MaxIds == 2
MaxVersions == 1
MaxClicks == 5
MaxMoves == 1
MaxStreams == 4
MaxTime == 1700

\* --------------------------------------------------------------- constants
NormOne == 100
W == 200
H == 100
CloseDist == 25
HandleDist == 20
segments == 32

NULL == 0

Pt(x, y) == [x |-> x, y |-> y]

\* ---------------------------------------------------------------- geometry
dist2(p1, p2) == (p1.x - p2.x) * (p1.x - p2.x) + (p1.y - p2.y) * (p1.y - p2.y)

toPixels(p) == [x |-> (p.x * W) \div NormOne, y |-> (p.y * H) \div NormOne]

\* toNormalized dividing both axes by the width
toNormalizedByWidth(p) == [x |-> (p.x * NormOne) \div W, y |-> (p.y * NormOne) \div W]

toNormalized(p) == [x |-> (p.x * NormOne) \div W, y |-> (p.y * NormOne) \div H]

Max(a, b) == IF a > b THEN a ELSE b

Min(a, b) == IF a < b THEN a ELSE b

\* the drag write without Math.max / Math.min
clampNoop(p) == p

clamp01(p) == [x |-> Max(0, Min(NormOne, p.x)), y |-> Max(0, Min(NormOne, p.y))]

scaledPoints(s) == [k \in 1..Len(s.points) |-> toPixels(s.points[k])]

\* One edge (i, j) of the ray-casting test; the division by (yj - yi) is
\* cleared by multiplying through by it, with the comparison flipped when it
\* is negative.
intersect(pt, a, b) ==
    /\ (a.y > pt.y) # (b.y > pt.y)
    /\ IF b.y - a.y > 0
       THEN (pt.x - a.x) * (b.y - a.y) < (b.x - a.x) * (pt.y - a.y)
       ELSE (pt.x - a.x) * (b.y - a.y) > (b.x - a.x) * (pt.y - a.y)

\* inside flips once per intersecting edge: parity of the count.
isInside(pt, poly) ==
    LET n == Len(poly)
        prev(i) == IF i = 1 THEN n ELSE i - 1
        hits == {i \in 1..n : intersect(pt, poly[i], poly[prev(i)])}
    IN  Cardinality(hits) % 2 = 1

\* ------------------------------------------------------------------- state
\* App: shapes, selectedShapeId, mode, drawingPoints, versions.
\* Canvas: dragInfo, mousePos; painted is the set of list positions the last
\* frame painted.
\* Math.random().toString(36).substr(2, 9) is modelled as the next unused
\* number: nextId counts the ids handed out.  clicks and moves count the
\* drawing clicks and the vertex-drag writes of the run; they only bound it.
\* The mirror window: projectorActive, and the second Canvas mounted in it
\* with its own dragInfo and mousePos (projLocal) and the affordances its last
\* frame painted (projFrame).
VARIABLES shapes, selectedShapeId, mode, drawingPoints, versions,
          dragInfo, mousePos, painted, nextId, clicks, moves,
          projectorActive, projLocal, projFrame,
          showCamera, pending, srcObject, liveTracks, nextStream,
          projLoop, projVideos, projPlaying,
          notice, file,
          time, speed, base, alpha,
          botText,
          pendingFrames, draft,
          fill, filled,
          tri, transform

vars == <<shapes, selectedShapeId, mode, drawingPoints, versions,
          dragInfo, mousePos, painted, nextId, clicks, moves,
          projectorActive, projLocal, projFrame,
          showCamera, pending, srcObject, liveTracks, nextStream,
          projLoop, projVideos, projPlaying,
          notice, file,
          time, speed, base, alpha,
          botText,
          pendingFrames, draft,
          fill, filled,
          tri, transform>>

projector == <<projectorActive, projLocal, projFrame>>

budget == <<nextId, clicks, moves>>

\* The camera of the editor canvas: the Live Input toggle, the getUserMedia
\* requests not yet settled, the stream attached to the video element (NULL
\* when none), the streams whose tracks are live, and the next stream.
camera == <<showCamera, pending, srcObject, liveTracks, nextStream>>

\* The mirror canvas as a resource holder: projLoop is TRUE while one of its
\* animation frames is requested, projVideos is its videoElements map as a
\* set of <<id, src>>, projPlaying the video elements it created that play.
projMedia == <<projLoop, projVideos, projPlaying>>

\* What the user was last told (alert, or the assistant's chat message), and
\* the project file last downloaded by Export.
io == <<notice, file>>

\* No file downloaded yet.
NoFile == [written |-> FALSE]

\* The strobe effect as draw evaluates it: time is Date.now(), speed and base
\* are style.effectSpeed and style.opacity of the surface, alpha the opacity
\* the last evaluation gave.
strobe == <<time, speed, base, alpha>>

\* AIAssistant: the text of the last bot entry of messages.
assistant == <<botText>>

\* What the effects of App and of the editor canvas keep: the animation frame
\* requests of the editor canvas that are pending, and the item
\* lumemap_current_draft of localStorage.
effects == <<pendingFrames, draft>>

\* localStorage.getItem gave null.
NoDraft == [saved |-> FALSE]

\* One call of drawPattern on a surface with media fill: fill holds the
\* surface's fillType, mappingMode and point count and the state of its cached
\* element, filled what the call put on the canvas.
pattern == <<fill, filled>>

\* One call of drawTriangle: tri holds the source and destination triangle,
\* transform what the call passed to setTransform.
warp == <<tri, transform>>

\* dragInfo === null
NoDrag == [shapeId |-> NULL, pointIndex |-> 0]

\* No frame painted yet: no selection outline, no handles, no drawing path.
NoFrame == [fills |-> {}, outline |-> {}, handles |-> {}, path |-> FALSE]

\* The state a handler reads and sets.  A handler is a chain of setState
\* calls on the state of the render that created it; the operators below
\* take that state and return it with the calls applied in order.
AppState == [shapes |-> shapes, selectedShapeId |-> selectedShapeId, mode |-> mode,
             drawingPoints |-> drawingPoints, dragInfo |-> dragInfo]

Commit(st) ==
    /\ shapes' = st.shapes
    /\ selectedShapeId' = st.selectedShapeId
    /\ mode' = st.mode
    /\ drawingPoints' = st.drawingPoints
    /\ dragInfo' = st.dragInfo

\* ----------------------------------------------------------- preset shapes
squarePoints == <<Pt(30, 30), Pt(70, 30), Pt(70, 70), Pt(30, 70)>>

\* round(0.15 * NormOne * cos(2 pi i / segments)) for i = 0 .. segments/4
quarterCos == <<15, 15, 14, 12, 11, 8, 6, 3, 0>>

circleCos(i) ==
    LET j == i % segments
        q == segments \div 4
    IN  IF j <= q THEN quarterCos[j + 1]
        ELSE IF j <= 2 * q THEN 0 - quarterCos[2 * q - j + 1]
        ELSE IF j <= 3 * q THEN 0 - quarterCos[j - 2 * q + 1]
        ELSE quarterCos[segments - j + 1]

circleSin(i) == circleCos(i + 3 * (segments \div 4))

circlePoints == [k \in 1..segments |-> Pt(50 + circleCos(k - 1), 50 + circleSin(k - 1))]

presetPoints(type) == IF type = "square" THEN squarePoints ELSE circlePoints

\* --------------------------------------------------------- App: operations
\* style.videoSrc when the field is absent
NoSrc == ""

\* shape.style when the field is absent
NoStyle == [missing |-> TRUE]

\* opacity is in units of 1/NormOne.
defaultStyle ==
    [color |-> "#ffffff", opacity |-> NormOne, effect |-> "none", effectSpeed |-> 5,
     fillType |-> "grid", videoSrc |-> NoSrc]

newShape(id, points) ==
    [id |-> id, points |-> points, visible |-> TRUE, isClosed |-> TRUE, style |-> defaultStyle]

addShape(st, id, points) ==
    [st EXCEPT !.shapes = Append(@, newShape(id, points)),
               !.selectedShapeId = id,
               !.mode = "EDITING"]

updateShape(shs, id, points, isClosed) ==
    [k \in 1..Len(shs) |->
        IF shs[k].id = id THEN [shs[k] EXCEPT !.points = points, !.isClosed = isClosed]
        ELSE shs[k]]

\* { ...s, style: { ...s.style, fillType: VIDEO, videoSrc: url } }
setVideo(shs, id, url) ==
    [k \in 1..Len(shs) |->
        IF shs[k].id = id
        THEN [shs[k] EXCEPT !.style = [@ EXCEPT !.fillType = "video", !.videoSrc = url]]
        ELSE shs[k]]

setVisible(shs, id, visible) ==
    [k \in 1..Len(shs) |-> IF shs[k].id = id THEN [shs[k] EXCEPT !.visible = visible] ELSE shs[k]]

removeShape(shs, id) == SelectSeq(shs, LAMBDA s : s.id # id)

\* deleteShape without the setSelectedShapeId call
deleteShapeKeepSelection(st, id) == [st EXCEPT !.shapes = removeShape(@, id)]

deleteShape(st, id) ==
    [st EXCEPT !.shapes = removeShape(@, id),
               !.selectedShapeId = IF st.selectedShapeId = id THEN NULL ELSE @]

handlePointsUpdate(st, id, points, isClosed) ==
    IF st.mode = "DRAWING" /\ isClosed
    THEN [addShape(st, id, points) EXCEPT !.drawingPoints = << >>, !.mode = "EDITING"]
    ELSE IF st.selectedShapeId # NULL
    THEN [st EXCEPT !.shapes = updateShape(@, st.selectedShapeId, points, isClosed)]
    ELSE st

onSelectShape(st, id) ==
    IF id # NULL THEN [st EXCEPT !.selectedShapeId = id, !.mode = "EDITING"]
    ELSE [st EXCEPT !.selectedShapeId = id]

customPoly(st) == [st EXCEPT !.mode = "DRAWING", !.selectedShapeId = NULL]

\* an undo that drops the first point
undoFirstPoint(st) ==
    [st EXCEPT !.drawingPoints = SubSeq(@, 2, Len(@))]

\* setDrawingPoints(prev => prev.slice(0, -1))
undoDrawingPoint(st) ==
    [st EXCEPT !.drawingPoints = SubSeq(@, 1, Len(@) - 1)]

cancelDrawing(st) == [st EXCEPT !.drawingPoints = << >>, !.mode = "IDLE"]

layerSelect(st, id) == [st EXCEPT !.selectedShapeId = id, !.mode = "EDITING"]

restoreVersion(st, v) == [st EXCEPT !.shapes = v, !.selectedShapeId = NULL, !.mode = "IDLE"]

\* newShapes.forEach(ns => addShape('polygon', ns.points)); setMode('IDLE')
RECURSIVE addEach(_, _, _, _)
addEach(st, batch, id, k) ==
    IF k > Len(batch) THEN st
    ELSE addEach(addShape(st, id + k - 1, batch[k]), batch, id, k + 1)

onShapesGenerated(st, batch, id) == [addEach(st, batch, id, 1) EXCEPT !.mode = "IDLE"]

\* ------------------------------------------------------------ AI assistant
\* a service that hands back whatever arrived
generateWithoutThrow(resp) == [threw |-> FALSE, result |-> resp]

\* generateMappingAssistant: throws without a key, when the request fails, and
\* when the response text does not parse; else returns the parsed object
generateMappingAssistant(resp) ==
    IF ~resp.key THEN [threw |-> TRUE, result |-> resp]
    ELSE IF ~resp.network THEN [threw |-> TRUE, result |-> resp]
    ELSE IF ~resp.parses THEN [threw |-> TRUE, result |-> resp]
    ELSE [threw |-> FALSE, result |-> resp]

\* handleSubmit after the await: the bot entry and the call of
\* onShapesGenerated; newShapes.forEach throws on a value that is no array,
\* inside the try, after the first bot entry
handleSubmit(st, resp, id) ==
    LET g == generateMappingAssistant(resp)
    IN  IF g.threw THEN [st |-> st, text |-> "Something went wrong"]
        ELSE IF g.result.hasShapes
        THEN IF g.result.isArray
             THEN [st |-> onShapesGenerated(st, g.result.shapes, id), text |-> "explanation"]
             ELSE [st |-> st, text |-> "Something went wrong"]
        ELSE [st |-> st, text |-> "Sorry"]

\* shapes.find(s => s.id === id): index of the first match, 0 when none
findShape(shs, id) ==
    IF \E k \in 1..Len(shs) : shs[k].id = id
    THEN CHOOSE k \in 1..Len(shs) : shs[k].id = id /\ \A m \in 1..(k - 1) : shs[m].id # id
    ELSE 0

\* ------------------------------------------------------ Canvas: hit testing
\* a canvas without vertex handles
handleNone(s, pixelP) == 0

\* selected.points.findIndex(hp => dist(pixelP, toPixels(hp)) < 20); 0 when none
handleIndex(s, pixelP) ==
    LET near(k) == dist2(pixelP, toPixels(s.points[k])) < HandleDist * HandleDist
    IN  IF \E k \in 1..Len(s.points) : near(k)
        THEN CHOOSE k \in 1..Len(s.points) : near(k) /\ \A m \in 1..(k - 1) : ~near(m)
        ELSE 0

\* for (i = shapes.length - 1; i >= 0; i--) if (isInside(...)) ...: the last
\* index whose polygon contains the point, 0 when none
hitIndex(shs, pixelP) ==
    LET hit(k) == isInside(pixelP, scaledPoints(shs[k]))
    IN  IF \E k \in 1..Len(shs) : hit(k)
        THEN CHOOSE k \in 1..Len(shs) : hit(k) /\ \A m \in (k + 1)..Len(shs) : ~hit(m)
        ELSE 0

nearFirst(pixelP, buf) == dist2(pixelP, toPixels(buf[1])) < CloseDist * CloseDist

\* The DRAWING branch with the closing click appended to the closed path
pointerDownDrawingWithClick(st, pixelP, id) ==
    IF Len(st.drawingPoints) > 2 /\ nearFirst(pixelP, st.drawingPoints)
    THEN [handlePointsUpdate(st, id, Append(st.drawingPoints, toNormalized(pixelP)), TRUE)
            EXCEPT !.drawingPoints = << >>, !.mode = "EDITING"]
    ELSE [st EXCEPT !.drawingPoints = Append(@, toNormalized(pixelP))]

\* The DRAWING branch of handlePointerDown; id is the id addShape draws.
pointerDownDrawing(st, pixelP, id) ==
    IF Len(st.drawingPoints) > 2 /\ nearFirst(pixelP, st.drawingPoints)
    THEN [handlePointsUpdate(st, id, st.drawingPoints, TRUE)
            EXCEPT !.drawingPoints = << >>, !.mode = "EDITING"]
    ELSE [st EXCEPT !.drawingPoints = Append(@, toNormalized(pixelP))]

\* The rest of handlePointerDown: grab a handle of the selected surface,
\* else hit-test the list from the top.
pointerDownSelect(st, pixelP) ==
    LET k == findShape(st.shapes, st.selectedShapeId)
        h == IF st.selectedShapeId # NULL /\ k # 0 THEN handleIndex(st.shapes[k], pixelP) ELSE 0
        i == hitIndex(st.shapes, pixelP)
    IN  IF h # 0
        THEN [st EXCEPT !.dragInfo = [shapeId |-> st.shapes[k].id, pointIndex |-> h]]
        ELSE IF i # 0
        THEN [onSelectShape(st, st.shapes[i].id) EXCEPT !.mode = "EDITING"]
        ELSE [onSelectShape(st, NULL) EXCEPT !.mode = "IDLE"]

handlePointerDown(st, pixelP, id) ==
    IF st.mode = "DRAWING" THEN pointerDownDrawing(st, pixelP, id)
    ELSE pointerDownSelect(st, pixelP)

\* The drag branch of handlePointerMove (mode is not DRAWING).
dragging(st) == st.dragInfo # NoDrag /\ findShape(st.shapes, st.dragInfo.shapeId) # 0

pointerMoveDrag(st, pixelP) ==
    LET k == findShape(st.shapes, st.dragInfo.shapeId)
        newPoints == [st.shapes[k].points EXCEPT
                        ![st.dragInfo.pointIndex] = clamp01(toNormalized(pixelP))]
    IN  handlePointsUpdate(st, NULL, newPoints, st.shapes[k].isClosed)

\* ------------------------------------------------------------- render loop
\* The surfaces the forEach of draw does not skip.
drawn(shs) == {k \in 1..Len(shs) : shs[k].visible /\ Len(shs[k].points) >= 2}

\* Painting a surface reads shape.style.opacity first: a surface without a
\* style object throws a TypeError there.
paintThrows(s) == s.style = NoStyle

\* an exception leaves draw before its last line
drawThrows(shs) == \E k \in drawn(shs) : paintThrows(shs[k])

\* The list positions of the surfaces a frame paints: the forEach has no
\* try, so the first throw ends the frame.
paintedBy(shs) ==
    {k \in drawn(shs) : \A m \in drawn(shs) : m <= k => ~paintThrows(shs[m])}

\* ------------------------------------------------------ render: patterns
\* videoElements.current.get(id) / imageElements.current.get(id) gave
\* undefined
NoAsset == [present |-> FALSE, ready |-> FALSE, broken |-> FALSE, width |-> 0, height |-> 0]

\* drawWarpedImage: returns before any drawTriangle when the element has no
\* intrinsic size or the surface has fewer than 3 points
drawWarpedImage(asset, npoints) ==
    IF asset.width = 0 \/ asset.height = 0 \/ npoints < 3 THEN "nothing" ELSE "warp"

\* ctx.drawImage(asset, x, y, w, h): InvalidStateError on an image in the
\* broken state; nothing is drawn from an element without intrinsic size
drawImage(asset) ==
    IF asset.broken THEN "throws"
    ELSE IF asset.width = 0 \/ asset.height = 0 THEN "nothing"
    ELSE "image"

\* The VIDEO / IMAGE branch of drawPattern.  isReady is readyState >= 2 of a
\* video and complete of an image.
drawPattern(f) ==
    IF f.asset.present /\ f.asset.ready
    THEN IF f.mappingMode = "stretch" THEN drawWarpedImage(f.asset, f.npoints)
         ELSE drawImage(f.asset)
    ELSE "placeholder"

\* ---------------------------------------------------------- render: warp
\* The call returned before setTransform.
NoTransform == [set |-> FALSE]

abs(n) == IF n < 0 THEN 0 - n ELSE n

\* a transform with b and c in each other's place
drawTriangleTransposed(s0, s1, s2, d0, d1, d2) ==
    LET det == (s1.x - s0.x) * (s2.y - s0.y) - (s2.x - s0.x) * (s1.y - s0.y)
        a == (d1.x - d0.x) * (s2.y - s0.y) - (d2.x - d0.x) * (s1.y - s0.y)
        b == (d1.y - d0.y) * (s2.y - s0.y) - (d2.y - d0.y) * (s1.y - s0.y)
        c == (d2.x - d0.x) * (s1.x - s0.x) - (d1.x - d0.x) * (s2.x - s0.x)
        d == (d2.y - d0.y) * (s1.x - s0.x) - (d1.y - d0.y) * (s2.x - s0.x)
    IN  IF 10 * abs(det) < 1 THEN NoTransform
        ELSE [set |-> TRUE, det |-> det, a |-> a, b |-> c, c |-> b, d |-> d,
              e |-> d0.x * det - a * s0.x - b * s0.y,
              f |-> d0.y * det - c * s0.x - d * s0.y]

\* drawTriangle: the arguments of setTransform(a, b, c, d, e, f).  Each is a
\* quotient by det in the code; it is kept here as its numerator over det, so
\* the value is a / det and so on, exactly.
drawTriangle(s0, s1, s2, d0, d1, d2) ==
    LET det == (s1.x - s0.x) * (s2.y - s0.y) - (s2.x - s0.x) * (s1.y - s0.y)
        a == (d1.x - d0.x) * (s2.y - s0.y) - (d2.x - d0.x) * (s1.y - s0.y)
        b == (d1.y - d0.y) * (s2.y - s0.y) - (d2.y - d0.y) * (s1.y - s0.y)
        c == (d2.x - d0.x) * (s1.x - s0.x) - (d1.x - d0.x) * (s2.x - s0.x)
        d == (d2.y - d0.y) * (s1.x - s0.x) - (d1.y - d0.y) * (s2.x - s0.x)
    IN  IF 10 * abs(det) < 1 THEN NoTransform
        ELSE [set |-> TRUE, det |-> det, a |-> a, b |-> b, c |-> c, d |-> d,
              e |-> d0.x * det - a * s0.x - c * s0.y,
              f |-> d0.y * det - b * s0.x - d * s0.y]

\* ------------------------------------------------------- render: effects
\* a mid-level opacity in the dark phase
strobeFade(t, effectSpeed, opacity) ==
    IF (t \div ((11 - effectSpeed) * 80)) % 2 = 0 THEN opacity ELSE opacity \div 2

\* Math.floor(time / ((11 - effectSpeed) * 80)) % 2 === 0 ? opacity : 0
strobeOpacity(t, effectSpeed, opacity) ==
    IF (t \div ((11 - effectSpeed) * 80)) % 2 = 0 THEN opacity ELSE 0

\* ------------------------------------------------- Canvas as a component
\* The props App passes to the editor canvas and to the canvas of the mirror
\* window.  wired is TRUE when the four callbacks are App's handlers and FALSE
\* when they are () => {}.
editorProps ==
    [isProjector |-> FALSE, mode |-> mode, selectedShapeId |-> selectedShapeId,
     currentDrawingPoints |-> drawingPoints, wired |-> TRUE]

projectorProps ==
    [isProjector |-> TRUE, mode |-> "PROJECTING", selectedShapeId |-> NULL,
     currentDrawingPoints |-> << >>, wired |-> FALSE]

\* What a handler of a canvas with these props and this local state reads.
canvasView(props, local) ==
    [shapes |-> shapes, selectedShapeId |-> props.selectedShapeId, mode |-> props.mode,
     drawingPoints |-> props.currentDrawingPoints, dragInfo |-> local.dragInfo]

\* What a handler that computed r leaves behind: the callbacks reach App only
\* when wired, setDragInfo always reaches the canvas itself.
canvasResult(props, local, r) ==
    [app |-> IF props.wired
             THEN [AppState EXCEPT !.shapes = r.shapes, !.selectedShapeId = r.selectedShapeId,
                                   !.mode = r.mode, !.drawingPoints = r.drawingPoints]
             ELSE AppState,
     local |-> [local EXCEPT !.dragInfo = r.dragInfo]]

canvasPointerDown(props, local, pixelP, id) ==
    IF props.isProjector \/ props.mode = "PROJECTING"
    THEN [app |-> AppState, local |-> local]
    ELSE canvasResult(props, local, handlePointerDown(canvasView(props, local), pixelP, id))

canvasPointerMove(props, local, pixelP) ==
    LET v == canvasView(props, local)
    IN  IF props.mode = "DRAWING"
        THEN [app |-> AppState, local |-> [local EXCEPT !.mousePos = <<toNormalized(pixelP)>>]]
        ELSE IF props.isProjector \/ ~dragging(v)
        THEN [app |-> AppState, local |-> local]
        ELSE canvasResult(props, local, pointerMoveDrag(v, pixelP))

canvasPointerUp(local) == [local EXCEPT !.dragInfo = NoDrag]

\* The affordances one frame of a canvas paints besides the fills: the dashed
\* outline of the selected surface, its vertex handles, the in-progress path.
frame(props, shs) ==
    LET editing == ~(props.mode = "PROJECTING" \/ props.isProjector)
        isSelected(k) == shs[k].id = props.selectedShapeId /\ ~props.isProjector
    IN  [fills |-> paintedBy(shs),
         outline |-> {k \in paintedBy(shs) : editing /\ isSelected(k)},
         handles |-> {k \in paintedBy(shs) : editing /\ isSelected(k) /\ props.mode = "EDITING"},
         path |-> ~props.isProjector /\ props.mode = "DRAWING"
                  /\ Len(props.currentDrawingPoints) > 0]

\* ------------------------------------------------------- Canvas: camera
CameraState == [showCamera |-> showCamera, pending |-> pending,
                srcObject |-> srcObject, liveTracks |-> liveTracks]

\* The effect on [showCamera, isProjector] of the editor canvas, run with the
\* new value of showCamera; stream is the stream the request will resolve to.
cameraEffect(cam, stream) ==
    IF cam.showCamera
    THEN [cam EXCEPT !.pending = @ \cup {stream}]
    ELSE IF cam.srcObject # NULL
    THEN [cam EXCEPT !.liveTracks = @ \ {cam.srcObject}]
    ELSE cam

\* .then(stream => { videoRef.current.srcObject = stream; ... })
streamResolved(cam, stream) ==
    [cam EXCEPT !.pending = @ \ {stream},
                !.srcObject = stream,
                !.liveTracks = @ \cup {stream}]

\* .catch(err => console.error(...))
streamRejected(cam, stream) == [cam EXCEPT !.pending = @ \ {stream}]

\* -------------------------------------------------- Canvas: media assets
\* The effect on [shapes]: one shape of the forEach, on the pair of the
\* videoElements map and the playing elements.
mediaStep(m, s) ==
    LET old == {e \in m.videos : e[1] = s.id}
        new == <<s.id, s.style.videoSrc>>
    IN  IF s.style.fillType = "video" /\ s.style.videoSrc # NoSrc /\ new \notin m.videos
        THEN [videos |-> (m.videos \ old) \cup {new},
              playing |-> (m.playing \ old) \cup {new}]
        ELSE m

\* The forEach; reading style.fillType of a surface without a style object
\* throws and ends the effect.
RECURSIVE mediaEach(_, _, _)
mediaEach(m, shs, k) ==
    IF k > Len(shs) THEN [videos |-> m.videos, playing |-> m.playing, threw |-> FALSE]
    ELSE IF shs[k].style = NoStyle
    THEN [videos |-> m.videos, playing |-> m.playing, threw |-> TRUE]
    ELSE mediaEach(mediaStep(m, shs[k]), shs, k + 1)

\* ... then the entries of ids no longer in the list are deleted from the map.
mediaEffect(m, shs) ==
    LET r == mediaEach(m, shs, 1)
        activeIds == {shs[k].id : k \in 1..Len(shs)}
    IN  [videos |-> IF r.threw THEN r.videos ELSE {e \in r.videos : e[1] \in activeIds},
         playing |-> r.playing]

\* Unmounting a canvas: the animation frame effect's cleanup cancels the
\* requested frame and the refs go with the instance; the media effect has
\* no cleanup, so no element is paused.
canvasUnmount(c) == [c EXCEPT !.loop = FALSE, !.videos = {}]

\* Mounting a canvas: fresh refs, the media effect and the first frame request.
canvasMount(c, shs) ==
    LET m == mediaEffect([videos |-> {}, playing |-> c.playing], shs)
    IN  [loop |-> TRUE, videos |-> m.videos, playing |-> m.playing]

\* ------------------------------------------------- project files (JSON)
\* JSON.stringify and JSON.parse on the values a surface holds.  A number is
\* written as a sign and decimal digits; a boolean as the word; a key whose
\* value is undefined is left out, and reading a key that is not there gives
\* undefined again.
RECURSIVE digitsOf(_)
digitsOf(n) == IF n < 10 THEN <<n>> ELSE Append(digitsOf(n \div 10), n % 10)

numText(n) == [neg |-> n < 0, digits |-> digitsOf(IF n < 0 THEN 0 - n ELSE n)]

RECURSIVE valueOf(_)
valueOf(ds) == IF Len(ds) = 0 THEN 0 ELSE 10 * valueOf(SubSeq(ds, 1, Len(ds) - 1)) + ds[Len(ds)]

\* the digits read without the sign
textNumAbs(t) == valueOf(t.digits)

textNum(t) == IF t.neg THEN 0 - valueOf(t.digits) ELSE valueOf(t.digits)

boolText(b) == IF b THEN "true" ELSE "false"

textBool(t) == t = "true"

pointText(p) == [x |-> numText(p.x), y |-> numText(p.y)]

textPoint(t) == [x |-> textNum(t.x), y |-> textNum(t.y)]

NumberKeys == {"opacity", "effectSpeed"}

BoolKeys == {"visible", "isClosed"}

stringifyStyle(st) ==
    [f \in {g \in DOMAIN st : ~(g = "videoSrc" /\ st[g] = NoSrc)} |->
        IF f \in NumberKeys THEN numText(st[f]) ELSE st[f]]

parseStyle(t) ==
    [f \in DOMAIN t \cup {"videoSrc"} |->
        IF f \notin DOMAIN t THEN NoSrc
        ELSE IF f \in NumberKeys THEN textNum(t[f])
        ELSE t[f]]

stringifyShape(s) ==
    [f \in {g \in DOMAIN s : ~(g = "style" /\ s[g] = NoStyle)} |->
        IF f = "points" THEN [k \in 1..Len(s.points) |-> pointText(s.points[k])]
        ELSE IF f = "style" THEN stringifyStyle(s.style)
        ELSE IF f \in BoolKeys THEN boolText(s[f])
        ELSE IF f \in NumberKeys THEN numText(s[f])
        ELSE s[f]]

parseShape(t) ==
    [f \in DOMAIN t \cup {"style"} |->
        IF f \notin DOMAIN t THEN NoStyle
        ELSE IF f = "points" THEN [k \in 1..Len(t.points) |-> textPoint(t.points[k])]
        ELSE IF f = "style" THEN parseStyle(t.style)
        ELSE IF f \in BoolKeys THEN textBool(t[f])
        ELSE IF f \in NumberKeys THEN textNum(t[f])
        ELSE t[f]]

\* exportProject: the downloaded text
exportProject(shs) ==
    [written |-> TRUE,
     text |-> [app |-> "LumeMap", version |-> "1.0",
               shapes |-> [k \in 1..Len(shs) |-> stringifyShape(shs[k])]]]

\* localStorage.setItem('lumemap_current_draft', JSON.stringify(shapes)): the
\* item, as the list it was written from
saveDraft(shs) == [saved |-> TRUE, written |-> shs]

\* const saved = localStorage.getItem(...); if (saved) setShapes(JSON.parse(saved)):
\* the list a fresh page starts with, read from the text JSON.stringify wrote
loadDraft(d) ==
    IF d.saved
    THEN LET text == [k \in 1..Len(d.written) |-> stringifyShape(d.written[k])]
         IN  [k \in 1..Len(text) |-> parseShape(text[k])]
    ELSE << >>

\* JSON.parse of a file written by exportProject
parseFile(f) ==
    [json |-> TRUE, hasShapes |-> TRUE,
     shapes |-> [k \in 1..Len(f.text.shapes) |-> parseShape(f.text.shapes[k])]]

\* ------------------------------------------------------------------ inputs
\* Pointer positions in canvas pixels (clientX - rect.left, clientY - rect.top).
\* Pointer-down lands on the canvas; a captured pointer can move off it.
DownPts == {Pt(20, 10), Pt(100, 10), Pt(100, 50), Pt(22, 11)}

SelectPts == {Pt(20, 10), Pt(100, 10), Pt(100, 50)}

MovePts == {Pt(280, 0 - 30), Pt(60, 30)}

\* Object URLs of uploaded video files.
VideoUrls == {"blob:a", "blob:b"}

\* Frame times, effect speeds and base opacities for the strobe effect.
StartTimes == {0, 1000}

TickSteps == {16, 40}

Speeds == 1..10

Opacities == {0, 50, NormOne}

\* Cached elements: none, still loading, decoded, an image whose load failed
\* (complete, no size, broken), ready without a picture (no intrinsic size).
loadingAsset == [NoAsset EXCEPT !.present = TRUE]

AssetStates ==
    {NoAsset,
     loadingAsset,
     [loadingAsset EXCEPT !.ready = TRUE, !.width = 64, !.height = 48],
     [loadingAsset EXCEPT !.ready = TRUE, !.broken = TRUE],
     [loadingAsset EXCEPT !.ready = TRUE]}

\* A failed load leaves a video below readyState 2; only an image is broken.
FillCases ==
    {f \in [fillType : {"video", "image"}, mappingMode : {"stretch", "mask"},
            npoints : 2..5, asset : AssetStates] :
        f.asset.broken => f.fillType = "image"}

\* Source triangles of a 4 x 2 image: the two halves of the quad case, a
\* triangle of the fan case (centre, two ring points), three collinear points.
SourceTriangles ==
    {<<Pt(0, 0), Pt(4, 0), Pt(4, 2)>>,
     <<Pt(0, 0), Pt(4, 2), Pt(0, 2)>>,
     <<Pt(2, 1), Pt(4, 1), Pt(2, 2)>>,
     <<Pt(0, 0), Pt(2, 1), Pt(4, 2)>>}

\* Destination triangles in canvas pixels: the source corners themselves and
\* vertices dragged elsewhere.
DestTriangles ==
    {<<d0, d1, d2>> : d0 \in {Pt(0, 0), Pt(10, 5)},
                      d1 \in {Pt(4, 0), Pt(4, 2), Pt(60, 5)},
                      d2 \in {Pt(4, 2), Pt(0, 2), Pt(60, 45)}}

\* Parsed AI responses: result.shapes as the list of each record's points.
quadrant == <<Pt(20, 20), Pt(80, 20), Pt(80, 80), Pt(20, 80)>>

offCanvas == <<Pt(140, 0 - 30), Pt(50, 50), Pt(50, 10)>>

AIBatches == {<< >>, <<quadrant>>, <<offCanvas, << >> >>}

\* What comes back from the service for a request.
okResponse(batch) ==
    [key |-> TRUE, network |-> TRUE, parses |-> TRUE, hasShapes |-> TRUE, isArray |-> TRUE,
     shapes |-> batch]

\* Failed requests: no key, request rejected, text that does not parse, an
\* object without shapes, shapes that is no list.
AIFailures ==
    {[okResponse(<<quadrant>>) EXCEPT !.key = FALSE],
     [okResponse(<<quadrant>>) EXCEPT !.network = FALSE],
     [okResponse(<<quadrant>>) EXCEPT !.parses = FALSE],
     [okResponse(<< >>) EXCEPT !.hasShapes = FALSE, !.isArray = FALSE],
     [okResponse(<< >>) EXCEPT !.isArray = FALSE]}

\* An id of a file written by another session.
ForeignId == MaxIds + 1

\* A record in the flattened form: name, points, color, opacity, effect and
\* visible, with no style object and no isClosed (read as falsy).
legacyShape(id, points) ==
    [id |-> id, name |-> "Legacy", points |-> points, color |-> "#ff0000", opacity |-> 50,
     effect |-> "strobe", visible |-> TRUE, isClosed |-> FALSE, style |-> NoStyle]

\* Import files: not JSON, JSON without a shapes field, JSON with shapes.
ImportShapes ==
    {<< >>,
     <<[newShape(ForeignId, quadrant) EXCEPT !.visible = FALSE]>>,
     <<newShape(1, offCanvas), newShape(ForeignId, << >>)>>,
     <<legacyShape(ForeignId, quadrant), newShape(1, squarePoints)>>,
     <<newShape(ForeignId, quadrant), newShape(ForeignId, squarePoints)>>}

ImportDocs ==
    {[json |-> FALSE, hasShapes |-> FALSE, shapes |-> << >>],
     [json |-> TRUE, hasShapes |-> FALSE, shapes |-> << >>]}
    \cup {[json |-> TRUE, hasShapes |-> TRUE, shapes |-> l] : l \in ImportShapes}

\* The ids of a file are ids this session handed out earlier, or foreign.
knownIds(l) == \A k \in 1..Len(l) : l[k].id < nextId \/ l[k].id = ForeignId

importProject(shs, doc) == IF doc.json /\ doc.hasShapes THEN doc.shapes ELSE shs

\* The alert of importProject: success after setShapes, failure in the catch
\* of JSON.parse, none when the parsed data has no shapes.
importNotice(n, doc) ==
    IF ~doc.json THEN "import failed"
    ELSE IF doc.hasShapes THEN "imported"
    ELSE n

\* ------------------------------------------------------------------ actions
Init ==
    /\ shapes = << >>
    /\ selectedShapeId = NULL
    /\ mode = "IDLE"
    /\ drawingPoints = << >>
    /\ versions = << >>
    /\ dragInfo = NoDrag
    /\ mousePos = << >>
    /\ painted = {}
    /\ nextId = 1
    /\ clicks = 0
    /\ moves = 0
    /\ projectorActive = FALSE
    /\ projLocal = [dragInfo |-> NoDrag, mousePos |-> << >>]
    /\ projFrame = NoFrame
    /\ showCamera = FALSE
    /\ pending = {}
    /\ srcObject = NULL
    /\ liveTracks = {}
    /\ nextStream = 1
    /\ projLoop = FALSE
    /\ projVideos = {}
    /\ projPlaying = {}
    /\ notice = "none"
    /\ file = NoFile
    /\ time = 0
    /\ speed = 5
    /\ base = NormOne
    /\ alpha = NormOne
    /\ botText = "hello"
    /\ pendingFrames = 1
    /\ draft = NoDraft
    /\ fill = [fillType |-> "video", mappingMode |-> "stretch", npoints |-> 4, asset |-> NoAsset]
    /\ filled = "none"
    /\ tri = [s |-> <<Pt(0, 0), Pt(4, 0), Pt(4, 2)>>, d |-> <<Pt(0, 0), Pt(4, 0), Pt(4, 2)>>]
    /\ transform = NoTransform

ProjCanvas == [loop |-> projLoop, videos |-> projVideos, playing |-> projPlaying]

CommitProjCanvas(c) ==
    /\ projLoop' = c.loop
    /\ projVideos' = c.videos
    /\ projPlaying' = c.playing

\* The animation frame effect of the editor canvas runs after a render in
\* which draw changed (one of its dependencies did): its cleanup cancels the
\* request held in animationRef, then it requests a frame.
FrameEffect ==
    pendingFrames' =
        IF <<shapes', selectedShapeId', mode', drawingPoints', mousePos'>>
           # <<shapes, selectedShapeId, mode, drawingPoints, mousePos>>
        THEN (IF pendingFrames > 0 THEN pendingFrames - 1 ELSE 0) + 1
        ELSE pendingFrames

\* The persistence effect of App runs after a render in which shapes changed:
\* if (shapes.length > 0) localStorage.setItem(draft, JSON.stringify(shapes)).
DraftEffect ==
    draft' = IF shapes' # shapes /\ Len(shapes') > 0 THEN saveDraft(shapes') ELSE draft

\* The effects that follow a render of App and of the editor canvas.
EditorEffects == FrameEffect /\ DraftEffect

\* The media effect of the mirror canvas runs after a render in which shapes
\* changed, while that canvas is mounted.
ProjectorMedia ==
    IF projectorActive /\ shapes' # shapes
    THEN LET m == mediaEffect([videos |-> projVideos, playing |-> projPlaying], shapes')
         IN  /\ projVideos' = m.videos
             /\ projPlaying' = m.playing
             /\ projLoop' = projLoop
    ELSE UNCHANGED projMedia

AddPreset(type) ==
    /\ Len(shapes) < MaxShapes
    /\ nextId <= MaxIds
    /\ Commit(addShape(AppState, nextId, presetPoints(type)))
    /\ nextId' = nextId + 1
    /\ UNCHANGED <<versions, mousePos, painted, clicks, moves, projector, camera, io, strobe, assistant, pattern, warp>>
    /\ ProjectorMedia
    /\ EditorEffects

AddShape == \E type \in {"square", "circle"} : AddPreset(type)

CustomPoly ==
    /\ Commit(customPoly(AppState))
    /\ UNCHANGED <<versions, mousePos, painted, budget, projector, camera, projMedia, io, strobe, assistant, pattern, warp>>
    /\ EditorEffects

PointerDownDrawingAt(pixelP) ==
    LET st == handlePointerDown(AppState, pixelP, nextId)
    IN  /\ mode = "DRAWING"
        /\ clicks < MaxClicks
        /\ Len(st.shapes) <= MaxShapes
        /\ Len(st.drawingPoints) <= MaxDraw
        /\ nextId + Len(st.shapes) - Len(shapes) <= MaxIds + 1
        /\ Commit(st)
        /\ nextId' = nextId + Len(st.shapes) - Len(shapes)
        /\ clicks' = clicks + 1
        /\ UNCHANGED <<versions, mousePos, painted, moves, projector, camera, io, strobe, assistant, pattern, warp>>
        /\ ProjectorMedia
        /\ EditorEffects

PointerDownDrawing == \E pixelP \in DownPts : PointerDownDrawingAt(pixelP)

PointerDownSelectAt(pixelP) ==
    /\ mode # "DRAWING"
    /\ Commit(handlePointerDown(AppState, pixelP, nextId))
    /\ UNCHANGED <<versions, mousePos, painted, budget, projector, camera, projMedia, io, strobe, assistant, pattern, warp>>
    /\ EditorEffects

PointerDownSelect == \E pixelP \in SelectPts : PointerDownSelectAt(pixelP)

\* In DRAWING the handler only records the pointer for the rubber band.
PointerMoveDrawingAt(pixelP) ==
    /\ mode = "DRAWING"
    /\ mousePos' = <<toNormalized(pixelP)>>
    /\ UNCHANGED <<shapes, selectedShapeId, mode, drawingPoints, versions, dragInfo, painted, budget, projector, camera, projMedia, io, strobe, assistant, pattern, warp>>
    /\ EditorEffects

PointerMoveDrawing == \E pixelP \in MovePts : PointerMoveDrawingAt(pixelP)

\* Outside DRAWING the handler returns unless a drag is in progress on a
\* surface of the list.  A write past the end of the points array (a sparse
\* array) is outside the model.
PointerMoveAt(pixelP) ==
    /\ mode # "DRAWING"
    /\ dragging(AppState)
    /\ dragInfo.pointIndex <= Len(shapes[findShape(shapes, dragInfo.shapeId)].points)
    /\ moves < MaxMoves
    /\ Commit(pointerMoveDrag(AppState, pixelP))
    /\ moves' = moves + 1
    /\ UNCHANGED <<versions, mousePos, painted, nextId, clicks, projector, camera, io, strobe, assistant, pattern, warp>>
    /\ ProjectorMedia
    /\ EditorEffects

PointerMove == \E pixelP \in MovePts : PointerMoveAt(pixelP)

PointerUp ==
    /\ dragInfo' = NoDrag
    /\ UNCHANGED <<shapes, selectedShapeId, mode, drawingPoints, versions, mousePos, painted, budget, projector, camera, projMedia, io, strobe, assistant, effects, pattern, warp>>

\* The Back button is disabled while the buffer is empty.
UndoDrawingPoint ==
    /\ mode = "DRAWING"
    /\ Len(drawingPoints) > 0
    /\ Commit(undoDrawingPoint(AppState))
    /\ UNCHANGED <<versions, mousePos, painted, budget, projector, camera, projMedia, io, strobe, assistant, pattern, warp>>
    /\ EditorEffects

CancelDrawing ==
    /\ mode = "DRAWING"
    /\ Commit(cancelDrawing(AppState))
    /\ UNCHANGED <<versions, mousePos, painted, budget, projector, camera, projMedia, io, strobe, assistant, pattern, warp>>
    /\ EditorEffects

\* The ids that have a delete button: every layer row, and the selection HUD.
Deletable ==
    {shapes[k].id : k \in 1..Len(shapes)}
    \cup (IF selectedShapeId # NULL /\ mode # "DRAWING" THEN {selectedShapeId} ELSE {})

DeleteShapeOf(id) ==
    /\ Commit(deleteShape(AppState, id))
    /\ UNCHANGED <<versions, mousePos, painted, budget, projector, camera, io, strobe, assistant, pattern, warp>>
    /\ ProjectorMedia
    /\ EditorEffects

DeleteShape == \E id \in Deletable : DeleteShapeOf(id)

ToggleVisibility ==
    /\ \E k \in 1..Len(shapes) :
         shapes' = setVisible(shapes, shapes[k].id, ~shapes[k].visible)
    /\ UNCHANGED <<selectedShapeId, mode, drawingPoints, versions, dragInfo, mousePos, painted, budget, projector, camera, io, strobe, assistant, pattern, warp>>
    /\ ProjectorMedia
    /\ EditorEffects

LayerSelect ==
    /\ \E k \in 1..Len(shapes) : Commit(layerSelect(AppState, shapes[k].id))
    /\ UNCHANGED <<versions, mousePos, painted, budget, projector, camera, projMedia, io, strobe, assistant, pattern, warp>>
    /\ EditorEffects

SaveVersion ==
    /\ Len(versions) < MaxVersions
    /\ versions' = Append(versions, shapes)
    /\ UNCHANGED <<shapes, selectedShapeId, mode, drawingPoints, dragInfo, mousePos, painted, budget, projector, camera, projMedia, io, strobe, assistant, effects, pattern, warp>>

RestoreVersion ==
    /\ \E k \in 1..Len(versions) : Commit(restoreVersion(AppState, versions[k]))
    /\ UNCHANGED <<versions, mousePos, painted, budget, projector, camera, io, strobe, assistant, pattern, warp>>
    /\ ProjectorMedia
    /\ EditorEffects

DeleteVersion ==
    /\ \E k \in 1..Len(versions) :
         versions' = [m \in 1..(Len(versions) - 1) |-> IF m < k THEN versions[m] ELSE versions[m + 1]]
    /\ UNCHANGED <<shapes, selectedShapeId, mode, drawingPoints, dragInfo, mousePos, painted, budget, projector, camera, projMedia, io, strobe, assistant, effects, pattern, warp>>

ImportProjectOf(doc) ==
    /\ Len(doc.shapes) <= MaxShapes
    /\ knownIds(doc.shapes)
    /\ shapes' = importProject(shapes, doc)
    /\ notice' = importNotice(notice, doc)
    /\ UNCHANGED <<selectedShapeId, mode, drawingPoints, versions, dragInfo, mousePos, painted, budget, projector, camera, file, strobe, assistant, pattern, warp>>
    /\ ProjectorMedia
    /\ EditorEffects

ImportProject == \E doc \in ImportDocs : ImportProjectOf(doc)

AIRequestOf(resp) ==
    /\ Len(shapes) + Len(resp.shapes) <= MaxShapes
    /\ nextId + Len(resp.shapes) <= MaxIds + 1
    /\ LET r == handleSubmit(AppState, resp, nextId)
       IN  /\ Commit(r.st)
           /\ botText' = r.text
           /\ nextId' = nextId + (Len(r.st.shapes) - Len(shapes))
    /\ UNCHANGED <<versions, mousePos, painted, clicks, moves, projector, camera, io, strobe, pattern, warp>>
    /\ ProjectorMedia
    /\ EditorEffects

AIBatchOf(batch) == AIRequestOf(okResponse(batch))

AIFailure == \E resp \in AIFailures : AIRequestOf(resp)

AIBatch == \E batch \in AIBatches : AIBatchOf(batch)

Draw ==
    /\ pendingFrames > 0
    /\ painted' = paintedBy(shapes)
    /\ pendingFrames' = pendingFrames - 1 + (IF drawThrows(shapes) THEN 0 ELSE 1)
    /\ UNCHANGED draft
    /\ UNCHANGED <<shapes, selectedShapeId, mode, drawingPoints, versions, dragInfo, mousePos, budget, projector, camera, projMedia, io, strobe, assistant, pattern, warp>>

\* The Launch Projector button mounts or unmounts the mirror window's canvas.
ToggleProjector ==
    /\ projectorActive' = ~projectorActive
    /\ projLocal' = [dragInfo |-> NoDrag, mousePos |-> << >>]
    /\ projFrame' = IF projectorActive THEN projFrame ELSE NoFrame
    /\ CommitProjCanvas(IF projectorActive THEN canvasUnmount(ProjCanvas)
                        ELSE canvasMount(ProjCanvas, shapes))
    /\ UNCHANGED <<shapes, selectedShapeId, mode, drawingPoints, versions, dragInfo, mousePos, painted, budget, camera, io, strobe, assistant, effects, pattern, warp>>

\* The window was closed by the user: the interval of ProjectorPortal sees
\* win.closed and calls onClose.
ProjectorWindowClosed ==
    /\ projectorActive
    /\ projectorActive' = FALSE
    /\ CommitProjCanvas(canvasUnmount(ProjCanvas))
    /\ UNCHANGED <<shapes, selectedShapeId, mode, drawingPoints, versions, dragInfo, mousePos, painted, budget, projLocal, projFrame, camera, io, strobe, assistant, effects, pattern, warp>>

\* The file input of the property panel, with a video file.
UploadVideo ==
    /\ findShape(shapes, selectedShapeId) # 0
    /\ \E url \in VideoUrls : shapes' = setVideo(shapes, selectedShapeId, url)
    /\ UNCHANGED <<selectedShapeId, mode, drawingPoints, versions, dragInfo, mousePos, painted, budget, projector, camera, io, strobe, assistant, pattern, warp>>
    /\ ProjectorMedia
    /\ EditorEffects

CommitProjector(r) ==
    /\ Commit(r.app)
    /\ projLocal' = r.local
    /\ UNCHANGED <<versions, mousePos, painted, budget, projectorActive, projFrame, camera, projMedia, io, strobe, assistant, pattern, warp>>
    /\ EditorEffects

ProjectorPointerDownAt(pixelP) ==
    /\ projectorActive
    /\ CommitProjector(canvasPointerDown(projectorProps, projLocal, pixelP, nextId))

ProjectorPointerDown == \E pixelP \in DownPts : ProjectorPointerDownAt(pixelP)

ProjectorPointerMoveAt(pixelP) ==
    /\ projectorActive
    /\ CommitProjector(canvasPointerMove(projectorProps, projLocal, pixelP))

ProjectorPointerMove == \E pixelP \in MovePts : ProjectorPointerMoveAt(pixelP)

ProjectorPointerUp ==
    /\ projectorActive
    /\ projLocal' = canvasPointerUp(projLocal)
    /\ UNCHANGED <<shapes, selectedShapeId, mode, drawingPoints, versions, dragInfo, mousePos, painted, budget, projectorActive, projFrame, camera, projMedia, io, strobe, assistant, effects, pattern, warp>>

ProjectorDraw ==
    /\ projectorActive
    /\ projLoop
    /\ projFrame' = frame(projectorProps, shapes)
    /\ UNCHANGED <<shapes, selectedShapeId, mode, drawingPoints, versions, dragInfo, mousePos, painted, budget, projectorActive, projLocal, camera, projMedia, io, strobe, assistant, effects, pattern, warp>>

CommitCamera(cam) ==
    /\ showCamera' = cam.showCamera
    /\ pending' = cam.pending
    /\ srcObject' = cam.srcObject
    /\ liveTracks' = cam.liveTracks

\* The Live Input button, and the camera effect that the new value triggers.
ToggleCamera ==
    /\ showCamera \/ nextStream <= MaxStreams
    /\ CommitCamera(cameraEffect([CameraState EXCEPT !.showCamera = ~showCamera], nextStream))
    /\ nextStream' = IF showCamera THEN nextStream ELSE nextStream + 1
    /\ UNCHANGED <<shapes, selectedShapeId, mode, drawingPoints, versions, dragInfo, mousePos, painted, budget, projector, projMedia, io, strobe, assistant, effects, pattern, warp>>

StreamResolve ==
    /\ \E stream \in pending : CommitCamera(streamResolved(CameraState, stream))
    /\ UNCHANGED <<shapes, selectedShapeId, mode, drawingPoints, versions, dragInfo, mousePos, painted, budget, projector, nextStream, projMedia, io, strobe, assistant, effects, pattern, warp>>

StreamReject ==
    /\ \E stream \in pending : CommitCamera(streamRejected(CameraState, stream))
    /\ UNCHANGED <<shapes, selectedShapeId, mode, drawingPoints, versions, dragInfo, mousePos, painted, budget, projector, nextStream, projMedia, io, strobe, assistant, effects, pattern, warp>>

ExportProject ==
    /\ file' = exportProject(shapes)
    /\ UNCHANGED <<shapes, selectedShapeId, mode, drawingPoints, versions, dragInfo, mousePos, painted, budget, projector, camera, projMedia, notice, strobe, assistant, effects, pattern, warp>>

\* Import of the file the last Export wrote.
ImportExported ==
    /\ file # NoFile
    /\ ImportProjectOf(parseFile(file))

\* The page is loaded again: every component starts from its initial state,
\* the windows, elements and streams of the old page are gone, and the load
\* effect of App reads the draft; the persistence effect then runs on it.
Reload ==
    /\ shapes' = loadDraft(draft)
    /\ selectedShapeId' = NULL
    /\ mode' = "IDLE"
    /\ drawingPoints' = << >>
    /\ dragInfo' = NoDrag
    /\ mousePos' = << >>
    /\ painted' = {}
    /\ projectorActive' = FALSE
    /\ projLocal' = [dragInfo |-> NoDrag, mousePos |-> << >>]
    /\ projFrame' = NoFrame
    /\ showCamera' = FALSE
    /\ pending' = {}
    /\ srcObject' = NULL
    /\ liveTracks' = {}
    /\ projLoop' = FALSE
    /\ projVideos' = {}
    /\ projPlaying' = {}
    /\ notice' = "none"
    /\ botText' = "hello"
    /\ pendingFrames' = 1
    /\ draft' = IF Len(shapes') > 0 THEN saveDraft(shapes') ELSE draft
    /\ UNCHANGED <<versions, budget, nextStream, file, strobe, pattern, warp>>

\* A surface with effect strobe, at any speed and base opacity of the panel's
\* ranges, at any start time.
InitStrobe ==
    /\ shapes = << >>
    /\ selectedShapeId = NULL
    /\ mode = "IDLE"
    /\ drawingPoints = << >>
    /\ versions = << >>
    /\ dragInfo = NoDrag
    /\ mousePos = << >>
    /\ painted = {}
    /\ nextId = 1
    /\ clicks = 0
    /\ moves = 0
    /\ projectorActive = FALSE
    /\ projLocal = [dragInfo |-> NoDrag, mousePos |-> << >>]
    /\ projFrame = NoFrame
    /\ showCamera = FALSE
    /\ pending = {}
    /\ srcObject = NULL
    /\ liveTracks = {}
    /\ nextStream = 1
    /\ projLoop = FALSE
    /\ projVideos = {}
    /\ projPlaying = {}
    /\ notice = "none"
    /\ file = NoFile
    /\ time \in StartTimes
    /\ speed \in Speeds
    /\ base \in Opacities
    /\ alpha = base
    /\ botText = "hello"
    /\ pendingFrames = 1
    /\ draft = NoDraft
    /\ tri = [s |-> <<Pt(0, 0), Pt(4, 0), Pt(4, 2)>>, d |-> <<Pt(0, 0), Pt(4, 0), Pt(4, 2)>>]
    /\ transform = NoTransform
    /\ fill = [fillType |-> "video", mappingMode |-> "stretch", npoints |-> 4, asset |-> NoAsset]
    /\ filled = "none"

\* Time passes between two frames.
Tick ==
    /\ \E dt \in TickSteps : time + dt <= MaxTime /\ time' = time + dt
    /\ UNCHANGED <<shapes, selectedShapeId, mode, drawingPoints, versions, dragInfo, mousePos, painted, budget, projector, camera, projMedia, io, speed, base, alpha, assistant, effects, pattern, warp>>

\* The strobe line of draw for that surface.
EvalStrobe ==
    /\ alpha' = strobeOpacity(time, speed, base)
    /\ UNCHANGED <<shapes, selectedShapeId, mode, drawingPoints, versions, dragInfo, mousePos, painted, budget, projector, camera, projMedia, io, time, speed, base, assistant, effects, pattern, warp>>

\* A surface with video or image fill in any state of its cached element.
InitPattern ==
    /\ shapes = << >>
    /\ selectedShapeId = NULL
    /\ mode = "IDLE"
    /\ drawingPoints = << >>
    /\ versions = << >>
    /\ dragInfo = NoDrag
    /\ mousePos = << >>
    /\ painted = {}
    /\ nextId = 1
    /\ clicks = 0
    /\ moves = 0
    /\ projectorActive = FALSE
    /\ projLocal = [dragInfo |-> NoDrag, mousePos |-> << >>]
    /\ projFrame = NoFrame
    /\ showCamera = FALSE
    /\ pending = {}
    /\ srcObject = NULL
    /\ liveTracks = {}
    /\ nextStream = 1
    /\ projLoop = FALSE
    /\ projVideos = {}
    /\ projPlaying = {}
    /\ notice = "none"
    /\ file = NoFile
    /\ time = 0
    /\ speed = 5
    /\ base = NormOne
    /\ alpha = NormOne
    /\ botText = "hello"
    /\ pendingFrames = 1
    /\ draft = NoDraft
    /\ tri = [s |-> <<Pt(0, 0), Pt(4, 0), Pt(4, 2)>>, d |-> <<Pt(0, 0), Pt(4, 0), Pt(4, 2)>>]
    /\ transform = NoTransform
    /\ fill \in FillCases
    /\ filled = "none"

\* The element of the surface loads, fails or is replaced by the media effect.
AssetEvent ==
    /\ \E a \in AssetStates :
         /\ a # fill.asset
         /\ a.broken => fill.fillType = "image"
         /\ fill' = [fill EXCEPT !.asset = a]
    /\ filled' = "none"
    /\ UNCHANGED <<shapes, selectedShapeId, mode, drawingPoints, versions, dragInfo, mousePos, painted, budget, projector, camera, projMedia, io, strobe, assistant, effects, warp>>

\* A frame reaches drawPattern for that surface.
DrawPattern ==
    /\ filled' = drawPattern(fill)
    /\ UNCHANGED <<shapes, selectedShapeId, mode, drawingPoints, versions, dragInfo, mousePos, painted, budget, projector, camera, projMedia, io, strobe, assistant, effects, fill, warp>>

\* A triangle of a warped surface, any source against any destination.
InitWarp ==
    /\ shapes = << >>
    /\ selectedShapeId = NULL
    /\ mode = "IDLE"
    /\ drawingPoints = << >>
    /\ versions = << >>
    /\ dragInfo = NoDrag
    /\ mousePos = << >>
    /\ painted = {}
    /\ nextId = 1
    /\ clicks = 0
    /\ moves = 0
    /\ projectorActive = FALSE
    /\ projLocal = [dragInfo |-> NoDrag, mousePos |-> << >>]
    /\ projFrame = NoFrame
    /\ showCamera = FALSE
    /\ pending = {}
    /\ srcObject = NULL
    /\ liveTracks = {}
    /\ nextStream = 1
    /\ projLoop = FALSE
    /\ projVideos = {}
    /\ projPlaying = {}
    /\ notice = "none"
    /\ file = NoFile
    /\ time = 0
    /\ speed = 5
    /\ base = NormOne
    /\ alpha = NormOne
    /\ botText = "hello"
    /\ pendingFrames = 1
    /\ draft = NoDraft
    /\ fill = [fillType |-> "video", mappingMode |-> "stretch", npoints |-> 4, asset |-> NoAsset]
    /\ filled = "none"
    /\ tri \in [s : SourceTriangles, d : DestTriangles]
    /\ transform = NoTransform

\* A vertex of the surface is dragged: the destination triangle changes.
Retarget ==
    /\ \E d \in DestTriangles : d # tri.d /\ tri' = [tri EXCEPT !.d = d]
    /\ transform' = NoTransform
    /\ UNCHANGED <<shapes, selectedShapeId, mode, drawingPoints, versions, dragInfo, mousePos, painted, budget, projector, camera, projMedia, io, strobe, assistant, effects, pattern>>

\* A frame draws that triangle.
DrawTriangle ==
    /\ transform' = drawTriangle(tri.s[1], tri.s[2], tri.s[3], tri.d[1], tri.d[2], tri.d[3])
    /\ UNCHANGED <<shapes, selectedShapeId, mode, drawingPoints, versions, dragInfo, mousePos, painted, budget, projector, camera, projMedia, io, strobe, assistant, effects, pattern, tri>>

\* ---------------------------------------------------------- specifications
\* Every handler of the editor.
Next ==
    \/ AddShape
    \/ CustomPoly
    \/ PointerDownDrawing
    \/ PointerDownSelect
    \/ PointerMoveDrawing
    \/ PointerMove
    \/ PointerUp
    \/ UndoDrawingPoint
    \/ CancelDrawing
    \/ DeleteShape
    \/ ToggleVisibility
    \/ LayerSelect
    \/ SaveVersion
    \/ RestoreVersion
    \/ DeleteVersion
    \/ ImportProject
    \/ AIBatch
    \/ Draw
    \/ ToggleProjector
    \/ ProjectorPointerDown
    \/ ProjectorPointerMove
    \/ ProjectorPointerUp
    \/ ProjectorDraw
    \/ ToggleCamera
    \/ StreamResolve
    \/ StreamReject
    \/ ProjectorWindowClosed
    \/ UploadVideo
    \/ ExportProject
    \/ ImportExported
    \/ Tick
    \/ EvalStrobe
    \/ AIFailure
    \/ AssetEvent
    \/ DrawPattern
    \/ Reload
    \/ Retarget
    \/ DrawTriangle

Spec == Init /\ [][Next]_vars

\* The drawing session: the buffer, and every way into and out of DRAWING.
NextDraw ==
    \/ CustomPoly
    \/ PointerDownDrawing
    \/ UndoDrawingPoint
    \/ CancelDrawing
    \/ AddShape
    \/ LayerSelect
    \/ AIBatch

SpecDraw == Init /\ [][NextDraw]_vars

\* Selection, visibility, deletion and vertex drag on surfaces made by the
\* presets and the AI assistant.
NextSelect ==
    \/ AddShape
    \/ AIBatch
    \/ ToggleVisibility
    \/ LayerSelect
    \/ DeleteShape
    \/ PointerDownSelect
    \/ PointerMove
    \/ PointerUp

SpecSelect == Init /\ [][NextSelect]_vars

\* The surface list as data: every way a surface enters or leaves the list.
NextData ==
    \/ AddShape
    \/ AIBatch
    \/ ImportProject
    \/ DeleteShape
    \/ CustomPoly
    \/ SaveVersion
    \/ RestoreVersion
    \/ DeleteVersion

SpecData == Init /\ [][NextData]_vars

\* The mirror window beside an editing and drawing session.
NextProjector ==
    \/ AddShape
    \/ CustomPoly
    \/ PointerDownDrawing
    \/ ToggleProjector
    \/ ProjectorPointerDown
    \/ ProjectorPointerMove
    \/ ProjectorPointerUp
    \/ ProjectorDraw

SpecProjector == Init /\ [][NextProjector]_vars

\* The camera: the toggle against the settling of the stream requests.
NextCamera ==
    \/ ToggleCamera
    \/ StreamResolve
    \/ StreamReject

SpecCamera == Init /\ [][NextCamera]_vars

\* The mirror window's resources: surfaces with video fills come and go
\* while the window is opened and closed.
NextMirror ==
    \/ AddShape
    \/ UploadVideo
    \/ DeleteShape
    \/ ToggleProjector
    \/ ProjectorWindowClosed
    \/ ProjectorDraw

SpecMirror == Init /\ [][NextMirror]_vars

\* Project files: the list is built, exported, changed and imported again.
NextFile ==
    \/ AddShape
    \/ AIBatch
    \/ ToggleVisibility
    \/ DeleteShape
    \/ ExportProject
    \/ ImportExported

SpecFile == Init /\ [][NextFile]_vars

\* The render loop of the editor canvas on lists that were built or imported.
NextRender ==
    \/ AddShape
    \/ ImportProject
    \/ ToggleVisibility
    \/ DeleteShape
    \/ LayerSelect
    \/ Draw

SpecRender == Init /\ [][NextRender]_vars

\* The strobe effect over time.
NextStrobe ==
    \/ Tick
    \/ EvalStrobe

SpecStrobe == InitStrobe /\ [][NextStrobe]_vars

\* The assistant beside adding and drawing.
NextAssistant ==
    \/ AddShape
    \/ CustomPoly
    \/ PointerDownDrawing
    \/ AIBatch
    \/ AIFailure

SpecAssistant == Init /\ [][NextAssistant]_vars

\* Grabbing vertex handles and selecting on the canvas.
NextHandle ==
    \/ AddShape
    \/ LayerSelect
    \/ DeleteShape
    \/ PointerDownSelect
    \/ PointerMove
    \/ PointerUp

SpecHandle == Init /\ [][NextHandle]_vars

\* Painting a media surface while its element loads.
NextPattern ==
    \/ AssetEvent
    \/ DrawPattern

SpecPattern == InitPattern /\ [][NextPattern]_vars

\* The draft kept across page loads.
NextDraft ==
    \/ AddShape
    \/ ToggleVisibility
    \/ DeleteShape
    \/ PointerDownSelect
    \/ Reload

SpecDraft == Init /\ [][NextDraft]_vars

\* The video cache of the mirror canvas beside uploads, deletes and imports.
NextCache ==
    \/ AddShape
    \/ UploadVideo
    \/ DeleteShape
    \/ ImportProject
    \/ ToggleProjector

SpecCache == Init /\ [][NextCache]_vars

\* Warping a triangle while its destination moves.
NextWarp ==
    \/ Retarget
    \/ DrawTriangle

SpecWarp == InitWarp /\ [][NextWarp]_vars

\* ------------------------------------------------------------------ claims
Last(l) == l[Len(l)]

InUnit(p) == p.x \in 0..NormOne /\ p.y \in 0..NormOne

\* the buffer [(0.1,0.1),(0.5,0.1),(0.5,0.5)]
triangle == <<Pt(10, 10), Pt(50, 10), Pt(50, 50)>>

\* C1: in DRAWING with more than 2 buffered points, a pointer-down closer
\* than the closing threshold to the first point appends exactly one closed
\* surface whose points are the buffered points in order, without the click;
\* the buffer is emptied, the mode is EDITING and the new surface is selected.
C1_ClosingClick ==
    [][\A px \in DownPts :
         (/\ PointerDownDrawingAt(px)
          /\ Len(drawingPoints) > 2
          /\ dist2(px, toPixels(drawingPoints[1])) < CloseDist * CloseDist)
         => /\ Len(shapes') = Len(shapes) + 1
            /\ SubSeq(shapes', 1, Len(shapes)) = shapes
            /\ Last(shapes').points = drawingPoints
            /\ Last(shapes').isClosed
            /\ drawingPoints' = << >>
            /\ mode' = "EDITING"
            /\ selectedShapeId' = Last(shapes').id
            /\ \A k \in 1..Len(shapes) : shapes[k].id # selectedShapeId']_vars

\* The triangle closed by the fourth click, at (0.11,0.11).
C1_Witness ==
    /\ clicks = 4
    /\ mode = "EDITING"
    /\ drawingPoints = << >>
    /\ Len(shapes) > 0
    /\ Last(shapes).points = triangle
    /\ selectedShapeId = Last(shapes).id

\* C2: in DRAWING, a pointer-down that does not close the path appends the
\* one normalized point to the end of the buffer; the earlier points, the
\* surface list and the selection are unchanged and the mode stays DRAWING.
C2_AppendingClick ==
    [][\A px \in DownPts :
         (/\ PointerDownDrawingAt(px)
          /\ ~(/\ Len(drawingPoints) > 2
               /\ dist2(px, toPixels(drawingPoints[1])) < CloseDist * CloseDist))
         => /\ drawingPoints' = drawingPoints \o <<Pt((px.x * NormOne) \div W, (px.y * NormOne) \div H)>>
            /\ shapes' = shapes
            /\ selectedShapeId' = selectedShapeId
            /\ mode' = "DRAWING"]_vars

\* The triangle's buffer with a fourth point appended away from the first.
C2_Witness ==
    /\ mode = "DRAWING"
    /\ Len(drawingPoints) = 4
    /\ SubSeq(drawingPoints, 1, 3) = triangle
    /\ drawingPoints[4] = Pt(50, 10)

\* C3: in IDLE, a pointer-down at p selects the last surface of the list
\* among the visible ones whose polygon contains p and the mode becomes
\* EDITING; when no visible surface contains p the selection becomes null and
\* the mode is IDLE.
C3_HitTestVisible ==
    [][\A px \in SelectPts :
         (PointerDownSelectAt(px) /\ mode = "IDLE")
         => LET cont == {k \in 1..Len(shapes) :
                           shapes[k].visible /\ isInside(px, scaledPoints(shapes[k]))}
            IN  IF cont # {}
                THEN /\ selectedShapeId' = shapes[CHOOSE k \in cont : \A m \in cont : m <= k].id
                     /\ mode' = "EDITING"
                ELSE /\ selectedShapeId' = NULL
                     /\ mode' = "IDLE"]_vars

\* C4: a surface whose visible flag is false is not painted by a frame and
\* is not the surface a pointer-down on the canvas selects, wherever it sits
\* in the list and whatever point is clicked.
C4_InvisibleInert ==
    [][\A px \in SelectPts :
         PointerDownSelectAt(px)
         => /\ \A k \in paintedBy(shapes') : shapes'[k].visible
            /\ \A k \in 1..Len(shapes') :
                 (selectedShapeId' # selectedShapeId /\ shapes'[k].id = selectedShapeId')
                 => shapes'[k].visible]_vars

\* C5: the point a vertex drag writes has both coordinates in [0,1]; a
\* pointer at normalized (1.4,-0.3) stores (1.0,0.0).
C5_DragClamped ==
    [][\A px \in MovePts :
         PointerMoveAt(px)
         => \A k \in 1..Len(shapes') :
              shapes'[k].id = selectedShapeId
              => /\ InUnit(shapes'[k].points[dragInfo.pointIndex])
                 /\ px = Pt(280, 0 - 30)
                    => shapes'[k].points[dragInfo.pointIndex] = Pt(NormOne, 0)]_vars

\* A vertex dragged to (1.4,-0.3) and stored as (1.0,0.0).
C5_Witness ==
    /\ moves = 1
    /\ \E k \in 1..Len(shapes) :
         /\ shapes[k].id = selectedShapeId
         /\ dragInfo.shapeId = selectedShapeId
         /\ dragInfo.pointIndex <= Len(shapes[k].points)
         /\ shapes[k].points[dragInfo.pointIndex] = Pt(NormOne, 0)

\* C6: every point of every surface of the live list has x and y in [0,1].
C6_PointsInUnit ==
    \A k \in 1..Len(shapes) : \A j \in 1..Len(shapes[k].points) : InUnit(shapes[k].points[j])

\* C7: every surface of the live list has at least 1 point.
C7_AtLeastOnePoint == \A k \in 1..Len(shapes) : Len(shapes[k].points) >= 1

\* C8: deleting the selected surface removes it from the live list and sets
\* the selection to null; deleting another surface removes that one and
\* leaves the selection unchanged.
C8_DeleteSelection ==
    [][\A id \in Deletable :
         DeleteShapeOf(id)
         => /\ \A k \in 1..Len(shapes') : shapes'[k].id # id
            /\ Len(shapes') = Cardinality({k \in 1..Len(shapes) : shapes[k].id # id})
            /\ selectedShapeId = id => selectedShapeId' = NULL
            /\ selectedShapeId # id => selectedShapeId' = selectedShapeId]_vars

\* The selected surface deleted while editing it: no selection is left and
\* its id is no longer in the list.
C8_Witness ==
    /\ mode = "EDITING"
    /\ selectedShapeId = NULL
    /\ nextId > 1
    /\ Len(shapes) < nextId - 1

\* C9: whenever the mode becomes DRAWING the drawing buffer is empty.
C9_EnterDrawingEmpty ==
    [][(mode # "DRAWING" /\ mode' = "DRAWING") => drawingPoints' = << >>]_vars

\* C10: in every state whose mode is not DRAWING the drawing buffer is empty.
C10_BufferOnlyInDrawing == mode # "DRAWING" => drawingPoints = << >>

\* C11: no pointer event on the canvas of the mirror window changes the
\* surface list, the selection, the mode or the drawing buffer, and no frame
\* of that canvas paints a selection outline, vertex handles or the
\* in-progress path.
C11_ProjectorReadOnly ==
    [][/\ ((\E px \in DownPts : ProjectorPointerDownAt(px))
           \/ (\E px \in MovePts : ProjectorPointerMoveAt(px))
           \/ ProjectorPointerUp)
          => UNCHANGED <<shapes, selectedShapeId, mode, drawingPoints>>
       /\ ProjectorDraw
          => /\ projFrame'.outline = {}
             /\ projFrame'.handles = {}
             /\ projFrame'.path = FALSE]_vars

\* The mirror window has painted the surface that is selected in the editor
\* in EDITING, while a drawing buffer is held.
C11_Witness ==
    /\ projectorActive
    /\ mode = "EDITING"
    /\ Len(drawingPoints) > 0
    /\ \E k \in projFrame.fills : k <= Len(shapes) /\ shapes[k].id = selectedShapeId

\* C12: in every state where the camera toggle is off, no camera stream the
\* view acquired has live tracks.
C12_CameraOffNoTrack == ~showCamera => liveTracks = {}

\* C13: once the mirror window is closed its render loop has no frame
\* requested, and no video element its asset cache created is still held or
\* still playing.
C13_ClosedReleases ==
    ~projectorActive => ~projLoop /\ projVideos = {} /\ projPlaying = {}

\* A shapes list the data model admits: every surface has at least 1 point
\* and every coordinate is in [0,1].
validList(l) ==
    \A k \in 1..Len(l) :
        /\ Len(l[k].points) >= 1
        /\ \A j \in 1..Len(l[k].points) : InUnit(l[k].points[j])

\* C14: importing a file that is not JSON, or that carries no valid shapes
\* list, is reported to the user as a failure and leaves the surface list
\* exactly as it was.
C14_ImportErrorKeepsList ==
    [][\A doc \in ImportDocs :
         (/\ ImportProjectOf(doc)
          /\ ~(doc.json /\ doc.hasShapes /\ validList(doc.shapes)))
         => /\ shapes' = shapes
            /\ notice' = "import failed"]_vars

\* C15: importing the document that Export writes from the live list gives a
\* list identical to it in order, fields and values.
C15_ExportImportRoundTrip ==
    [][/\ ExportProject => importProject(<< >>, parseFile(file')) = shapes
       /\ (ImportExported /\ file = exportProject(shapes)) => shapes' = shapes]_vars

\* A list of two surfaces, one hidden and one with a negative coordinate,
\* that was exported and imported back.
C15_Witness ==
    /\ notice = "imported"
    /\ file # NoFile
    /\ parseFile(file).shapes = shapes
    /\ Len(shapes) = 2
    /\ \E k \in 1..2 : ~shapes[k].visible
    /\ \E k \in 1..2 : \E j \in 1..Len(shapes[k].points) : shapes[k].points[j].y < 0

\* C16: a frame paints every visible surface whose own painting does not
\* fail, whatever happens to the other surfaces of the list.
C16_FrameSurvivesFailure ==
    [][Draw => \A k \in drawn(shapes) : ~paintThrows(shapes[k]) => k \in painted']_vars

\* C17: with effect strobe the evaluated opacity is 0 or exactly the base
\* opacity, for every time and every effectSpeed in 1..10.
C17_StrobeTwoLevels ==
    [][EvalStrobe => alpha' = 0 \/ alpha' = base]_vars

\* A dark phase of a surface of base opacity 0.5 at the fastest speed.
C17_Witness ==
    /\ alpha = 0
    /\ base = 50
    /\ speed = 10
    /\ (time \div 80) % 2 = 1

\* C18: reading a record in the flattened form (color, opacity and effect on
\* the record, no style object) yields a surface whose style object carries
\* that color, opacity and effect, so every surface of the list has a style
\* object.
C18_LegacyGetsStyle ==
    [][\A doc \in ImportDocs :
         (ImportProjectOf(doc) /\ doc.json /\ doc.hasShapes)
         => /\ Len(shapes') = Len(doc.shapes)
            /\ \A k \in 1..Len(doc.shapes) :
                 /\ shapes'[k].style # NoStyle
                 /\ doc.shapes[k].style = NoStyle
                    => /\ shapes'[k].style.color = doc.shapes[k].color
                       /\ shapes'[k].style.opacity = doc.shapes[k].opacity
                       /\ shapes'[k].style.effect = doc.shapes[k].effect]_vars

\* C19: surface ids are stable and never reused; in particular the ids of the
\* surfaces of the live list are pairwise distinct in every reachable state.
C19_IdsDistinct ==
    \A i, j \in 1..Len(shapes) : i # j => shapes[i].id # shapes[j].id

\* C20: when an AI request fails (no key, network failure, a response that
\* does not parse or has no shapes list) a message is shown, no surface is
\* added, and list, selection, mode and drawing buffer stay as they were.
C20_AIFailureKeepsState ==
    [][\A resp \in AIFailures :
         AIRequestOf(resp)
         => /\ botText' \in {"Something went wrong", "Sorry"}
            /\ shapes' = shapes
            /\ selectedShapeId' = selectedShapeId
            /\ mode' = mode
            /\ drawingPoints' = drawingPoints]_vars

\* A failure message while a path is being drawn over a surface of the list.
C20_Witness ==
    /\ botText \in {"Something went wrong", "Sorry"}
    /\ mode = "DRAWING"
    /\ Len(drawingPoints) > 0
    /\ Len(shapes) > 0

\* C21: in EDITING with a selected surface, a pointer-down within the handle
\* threshold of one of its vertices begins a drag of such a vertex and changes
\* neither selection nor mode; only when no vertex is within the threshold is
\* the pointer-down handled by hit-testing (select the topmost hit, else
\* deselect).
C21_HandleBeforeHitTest ==
    [][\A pixelP \in SelectPts :
         (/\ mode = "EDITING"
          /\ findShape(shapes, selectedShapeId) # 0
          /\ PointerDownSelectAt(pixelP))
         => LET s == shapes[findShape(shapes, selectedShapeId)]
                near(j) == dist2(pixelP, toPixels(s.points[j])) < HandleDist * HandleDist
                i == hitIndex(shapes, pixelP)
            IN  IF \E j \in 1..Len(s.points) : near(j)
                THEN /\ dragInfo' # NoDrag
                     /\ dragInfo'.shapeId = s.id
                     /\ dragInfo'.pointIndex \in 1..Len(s.points)
                     /\ near(dragInfo'.pointIndex)
                     /\ selectedShapeId' = selectedShapeId
                     /\ mode' = mode
                     /\ shapes' = shapes
                ELSE /\ dragInfo' = dragInfo
                     /\ shapes' = shapes
                     /\ IF i # 0
                        THEN selectedShapeId' = shapes[i].id /\ mode' = "EDITING"
                        ELSE selectedShapeId' = NULL /\ mode' = "IDLE"]_vars

\* A drag begun on a vertex of the selected surface while a second surface is
\* in the list.
C21_Witness ==
    /\ mode = "EDITING"
    /\ dragInfo # NoDrag
    /\ dragInfo.shapeId = selectedShapeId
    /\ Len(shapes) = 2
    /\ moves = 0

\* C22: during a vertex drag a pointer-move changes only the dragged vertex of
\* the surface on which the drag began: no other vertex, no point count and
\* no other surface changes, whatever the selection is by then.
C22_DragMovesOneVertex ==
    [][\A pixelP \in MovePts :
         PointerMoveAt(pixelP)
         => LET k == findShape(shapes, dragInfo.shapeId)
            IN  /\ Len(shapes') = Len(shapes)
                /\ \A m \in 1..Len(shapes) : m # k => shapes'[m] = shapes[m]
                /\ Len(shapes'[k].points) = Len(shapes[k].points)
                /\ \A j \in 1..Len(shapes[k].points) :
                     IF j = dragInfo.pointIndex
                     THEN shapes'[k].points[j] = clamp01(toNormalized(pixelP))
                     ELSE shapes'[k].points[j] = shapes[k].points[j]]_vars

\* C23: in every reachable state the selection is null or the id of a surface
\* of the live list.
C23_SelectionInList ==
    selectedShapeId = NULL \/ \E k \in 1..Len(shapes) : shapes[k].id = selectedShapeId

\* C24: while the editor canvas is mounted its frame loop never stops and
\* never duplicates: exactly one frame callback is pending between frames,
\* whatever the surface list contains.
C24_OneFramePending == pendingFrames = 1

\* C25: for an image or video surface whose element is missing, not ready,
\* failed to decode or has zero intrinsic width or height, and when a stretch
\* warp is skipped for fewer than 3 points, the frame paints the placeholder
\* fill: the surface is never left unpainted and painting never throws.
C25_PlaceholderWhenUnusable ==
    [][DrawPattern
       => LET a == fill.asset
              unusable == ~a.present \/ ~a.ready \/ a.broken \/ a.width = 0 \/ a.height = 0
              skipped == fill.mappingMode = "stretch" /\ fill.npoints < 3
          IN  /\ unusable \/ skipped => filled' = "placeholder"
              /\ filled' \notin {"nothing", "throws"}]_vars

\* C26: a vertex drag can begin only while the mode is EDITING: in IDLE, also
\* with a surface still selected, a pointer-down never starts a drag and is
\* handled by polygon hit-testing.
C26_DragOnlyInEditing ==
    [][\A pixelP \in SelectPts :
         (mode = "IDLE" /\ PointerDownSelectAt(pixelP))
         => LET i == hitIndex(shapes, pixelP)
            IN  /\ dragInfo' = dragInfo
                /\ IF i # 0
                   THEN selectedShapeId' = shapes[i].id /\ mode' = "EDITING"
                   ELSE selectedShapeId' = NULL /\ mode' = "IDLE"]_vars

\* C27: after the persistence step that follows a change of the live list the
\* stored draft equals the live list, so a reload restores the list as last
\* edited, the empty list included.
C27_DraftIsLiveList == loadDraft(draft) = shapes

\* C28: after the cache update that follows a change of the list, every key
\* of the video cache of a mounted canvas is the id of a surface of the list,
\* and each surface with video fill and a source has exactly one cached
\* element, whose source is the surface's current source.
C28_CacheMatchesList ==
    projectorActive
    => /\ \A e \in projVideos : \E k \in 1..Len(shapes) : shapes[k].id = e[1]
       /\ \A k \in 1..Len(shapes) :
            (/\ shapes[k].style # NoStyle
             /\ shapes[k].style.fillType = "video"
             /\ shapes[k].style.videoSrc # NoSrc)
            => {e \in projVideos : e[1] = shapes[k].id}
                 = {<<shapes[k].id, shapes[k].style.videoSrc>>}

\* C29: undo-last-point removes exactly the last point of the buffer (nothing
\* when it is empty), keeps the earlier points and the mode DRAWING, so an
\* append followed by an undo restores the buffer; cancel-drawing empties the
\* buffer and sets the mode to IDLE; neither changes the surface list.
C29_UndoAndCancel ==
    [][/\ UndoDrawingPoint
          => /\ Len(drawingPoints') = Len(drawingPoints) - 1
             /\ \A k \in 1..Len(drawingPoints') : drawingPoints'[k] = drawingPoints[k]
             /\ mode' = "DRAWING"
             /\ shapes' = shapes
       /\ CancelDrawing
          => /\ drawingPoints' = << >>
             /\ mode' = "IDLE"
             /\ shapes' = shapes
       /\ \A pixelP \in DownPts :
            (/\ PointerDownDrawingAt(pixelP)
             /\ drawingPoints' = Append(drawingPoints, toNormalized(pixelP)))
            => undoDrawingPoint(AppState') = [AppState' EXCEPT !.drawingPoints = drawingPoints]
       /\ drawingPoints = << >> => undoDrawingPoint(AppState) = AppState]_vars

\* A buffer cut back to one point after two clicks, still in DRAWING.
C29_Witness ==
    /\ mode = "DRAWING"
    /\ clicks = 2
    /\ Len(drawingPoints) = 1

\* C30: for a non-degenerate source triangle the transform drawTriangle sets
\* maps each source vertex onto its destination vertex, and is the identity
\* when the destination is the source; a source triangle whose determinant is
\* below 0.1 in magnitude is skipped without a transform.
C30_AffineMapsVertices ==
    [][DrawTriangle
       => LET det == (tri.s[2].x - tri.s[1].x) * (tri.s[3].y - tri.s[1].y)
                     - (tri.s[3].x - tri.s[1].x) * (tri.s[2].y - tri.s[1].y)
              t == transform'
          IN  IF det = 0
              THEN t = NoTransform
              ELSE /\ t.set
                   /\ \A k \in 1..3 :
                        /\ t.a * tri.s[k].x + t.c * tri.s[k].y + t.e = tri.d[k].x * t.det
                        /\ t.b * tri.s[k].x + t.d * tri.s[k].y + t.f = tri.d[k].y * t.det
                   /\ tri.d = tri.s
                      => /\ t.a = t.det /\ t.d = t.det
                         /\ t.b = 0 /\ t.c = 0 /\ t.e = 0 /\ t.f = 0]_vars

\* The second half of a quad stretched to dragged corners, with its transform.
C30_Witness ==
    /\ transform # NoTransform
    /\ tri.s = <<Pt(0, 0), Pt(4, 2), Pt(0, 2)>>
    /\ tri.d = <<Pt(10, 5), Pt(60, 5), Pt(60, 45)>>

====
